---- MODULE Spec2Model ----
(***************************************************************************)
(* alitiqDemandAPI (src/alitiq/demand_forecast.py): the demand-forecast    *)
(* client of the alitiq Engine API.  The three public operations           *)
(* get_measurements, post_measurements and get_forecast are modelled as    *)
(* operators that compute, from a call's arguments, the clock and the      *)
(* server's answer, the requests put on the wire and the call's outcome    *)
(* (a returned value or a raised error).  One action per operation         *)
(* records the last call.                                                  *)
(*                                                                         *)
(* Python values are records tagged by "kind"; None is [kind |-> "None"].  *)
(* An outcome is [kind |-> "return", value |-> v] or                       *)
(* [kind |-> "raise", error |-> [type |-> "..."]].                         *)
(***************************************************************************)
EXTENDS Integers, Sequences, FiniteSets, TLC

VARIABLES
    api_key,   \* the credential given to __init__, immutable afterwards
    now,       \* the wall clock datetime.now() reads
    calls,     \* number of public operations called so far
    sent,      \* number of HTTP requests issued so far
    op,        \* name of the last operation called ("none" before any)
    args,      \* the arguments of the last call
    served,    \* what the server answered (or would have) to the last call
    wire,      \* the requests the last call put on the wire, in order
    result     \* the outcome of the last call

vars == <<api_key, now, calls, sent, op, args, served, wire, result>>

----------------------------------------------------------------------------
(* Bounds of the model *)

MaxCalls == 2      \* calls made in one behaviour
MaxTicks == 1      \* steps of the clock in one behaviour
MaxBatch == 2      \* longest list handed to post_measurements
MaxDates == 2      \* number of distinct datetimes a caller may pass

----------------------------------------------------------------------------
(* Python values *)

None == [kind |-> "None"]
PyStr(s) == [kind |-> "str", v |-> s]
PyInt(i) == [kind |-> "int", v |-> i]
DateTime(s, u) == [kind |-> "datetime", secs |-> s, us |-> u]

IsNone(x) == x.kind = "None"

Return(v) == [kind |-> "return", value |-> v]
Raise(t) == [kind |-> "raise", error |-> [type |-> t]]
RaiseWith(e) == [kind |-> "raise", error |-> e]

SecondsPerDay == 24 * 60 * 60
MicrosPerSecond == 1000 * 1000

\* timedelta(days=2), in seconds
days == 2
timedelta_days == days * SecondsPerDay

\* datetime.__sub__(timedelta): the microsecond part is kept.
MinusDays(d) == DateTime(d.secs - timedelta_days, d.us)

\* datetime.strftime("%Y-%m-%dT%H:%M:%S"): the day number stands for the
\* calendar date; hours, minutes and seconds are computed; microseconds
\* are not part of the format.
strftime(d) ==
    LET r == d.secs % SecondsPerDay
    IN  [kind |-> "timestr",
         date |-> d.secs \div SecondsPerDay,
         H |-> r \div 3600,
         M |-> (r % 3600) \div 60,
         S |-> r % 60]

----------------------------------------------------------------------------
(* alitiq.enumerations: Services, ForecastModels and the name mapping *)

\* Services.DEMAND_FORECAST, the service scope of this client
DEMAND_FORECAST == "demand_forecast"

\* The members of the closed enumeration ForecastModels
ForecastModelNames == {"ICON_EU", "ICON_D2"}

Member(m) == [kind |-> "ForecastModels", name |-> m]

\* The string value of each member
ForecastModelValue(m) ==
    CASE m = "ICON_EU"  -> "icon_eu"
      [] m = "ICON_D2"  -> "icon_d2"

\* ForecastModels(x): a member is returned as it is, a string is looked up
\* by value, and anything else is rejected.
ForecastModels(x) ==
    IF x.kind = "ForecastModels"
    THEN Return(x)
    ELSE IF x.kind = "str"
            /\ \E m \in ForecastModelNames : ForecastModelValue(m) = x.v
         THEN Return(Member(CHOOSE m \in ForecastModelNames :
                                ForecastModelValue(m) = x.v))
         ELSE Raise("ValidationError")

\* FORECASTING_MODELS_TO_ALITIQ_MODEL_NAMING[member]: the provider's name
FORECASTING_MODELS_TO_ALITIQ_MODEL_NAMING(member) ==
    CASE member.name = "ICON_EU"  -> "dwd_icon_eu"
      [] member.name = "ICON_D2"  -> "dwd_icon_d2"

----------------------------------------------------------------------------
(* alitiq.models.demand_forecast: EngineMeasurementForm *)

\* A measurement record as the caller holds it.  wellformed says whether it
\* passes the schema.
Form(l, p, w) ==
    [kind |-> "EngineMeasurementForm",
     id_location |-> l, power |-> p, wellformed |-> w]

\* EngineMeasurementForm.dict(): the normalized record, or ValidationError.
FormDict(form) ==
    IF form.wellformed
    THEN Return([kind |-> "dict",
                 id_location |-> form.id_location,
                 power |-> form.power])
    ELSE Raise("ValidationError")

----------------------------------------------------------------------------
(* alitiq.base: alitiqAPIBase._request, the authenticated request layer *)

\* What the server may answer to one request.
Responses(bodies) ==
    {[kind |-> "transport_failure"]}
    \cup [kind : {"response"}, status : {200}, body : bodies]
    \cup [kind : {"response"}, status : {401, 403, 500}, body : {"denied"}]

\* Query parameters whose value is None are not sent.
drop_none(params) ==
    [k \in {n \in DOMAIN params : ~IsNone(params[n])} |-> params[k]]

\* The request as it leaves the client.
Outgoing(method, path, params, data) ==
    [method |-> method,
     service |-> DEMAND_FORECAST,
     path |-> path,
     key |-> api_key,
     params |-> drop_none(params),
     data |-> data]

\* The outcome of the one round trip.
Answer(resp) ==
    IF resp.kind = "transport_failure"
    THEN Raise("TransportError")
    ELSE IF resp.status \in {401, 403}
         THEN RaiseWith([type |-> "AuthenticationError", status |-> resp.status])
         ELSE IF resp.status < 200 \/ resp.status > 299
              THEN RaiseWith([type |-> "RequestError",
                              status |-> resp.status, body |-> resp.body])
              ELSE Return(PyStr(resp.body))

\* self._request(method, path, params=..., data=...): one request is put on
\* the wire and its outcome is returned or raised.
Request(method, path, params, data, resp) ==
    [wire |-> <<Outgoing(method, path, params, data)>>,
     result |-> Answer(resp)]

NoParams == [k \in {} |-> None]

----------------------------------------------------------------------------
(* pandas.read_json(StringIO(text), orient="split") as the client uses it *)

\* The bodies a GET may be answered with: a split envelope, JSON with a key
\* other than index, columns and data, and text that is not JSON.
TableBodies == {"split", "bad_keys", "not_json"}

\* The envelope is decoded to a table; the other two are rejected with
\* ValueError.
read_json(text) ==
    CASE text.v = "split"    -> Return([kind |-> "DataFrame", orient |-> "split"])
      [] text.v = "bad_keys" -> Raise("ValueError")
      [] text.v = "not_json" -> Raise("ValueError")

\* json.dumps(list of dicts): a JSON array text holding the items in order.
json_dumps(items) == [kind |-> "json_array", items |-> items]

----------------------------------------------------------------------------
(* alitiqDemandAPI.get_measurements *)

\* "if end_date is None:" sets both dates from the clock.
default_dates(start_date, end_date, clock) ==
    IF IsNone(end_date)
    THEN [start_date |-> MinusDays(clock), end_date |-> clock]
    ELSE [start_date |-> start_date, end_date |-> end_date]

\* get_measurements with the request-layer error caught and None returned.
get_measurements_sentinel(location_id, start_date, end_date, clock, resp) ==
    LET d == default_dates(start_date, end_date, clock)
    IN  IF IsNone(d.start_date)
        THEN [wire |-> <<>>, result |-> Raise("AttributeError")]
        ELSE LET r == Request("GET", "measurement/inspect",
                              [id_location |-> PyStr(location_id),
                               response_format |-> PyStr("json"),
                               start_date |-> strftime(d.start_date),
                               end_date |-> strftime(d.end_date)],
                              None, resp)
             IN  [wire |-> r.wire,
                  result |-> IF r.result.kind = "raise"
                             THEN Return(None)
                             ELSE read_json(r.result.value)]

\* The params dict is built first (strftime on None raises AttributeError),
\* then the request is made, then its body is decoded.
get_measurements(location_id, start_date, end_date, clock, resp) ==
    LET d == default_dates(start_date, end_date, clock)
    IN  IF IsNone(d.start_date)
        THEN [wire |-> <<>>, result |-> Raise("AttributeError")]
        ELSE LET r == Request("GET", "measurement/inspect",
                              [id_location |-> PyStr(location_id),
                               response_format |-> PyStr("json"),
                               start_date |-> strftime(d.start_date),
                               end_date |-> strftime(d.end_date)],
                              None, resp)
             IN  [wire |-> r.wire,
                  result |-> IF r.result.kind = "raise"
                             THEN r.result
                             ELSE read_json(r.result.value)]

----------------------------------------------------------------------------
(* alitiqDemandAPI.post_measurements *)

\* "if not isinstance(measurements, list): measurements = [measurements]"
as_list(measurements) ==
    IF measurements.kind = "list" THEN measurements.items ELSE <<measurements>>

\* validated_data with the last record left out (range(len - 1)).
validated_data_drops_last(forms) ==
    IF \E i \in 1..Len(forms) : FormDict(forms[i]).kind = "raise"
    THEN Raise("ValueError")
    ELSE Return([i \in 1..(Len(forms) - 1) |-> FormDict(forms[i]).value])

\* "[measurement.dict() for measurement in measurements]" inside the try:
\* a ValidationError of any record is caught and ValueError raised instead.
validated_data(forms) ==
    IF \E i \in 1..Len(forms) : FormDict(forms[i]).kind = "raise"
    THEN Raise("ValueError")
    ELSE Return([i \in 1..Len(forms) |-> FormDict(forms[i]).value])

\* post_measurements that sends the request again when it failed.
post_measurements_retry(measurements, resp) ==
    LET v == validated_data(as_list(measurements))
    IN  IF v.kind = "raise"
        THEN [wire |-> <<>>, result |-> v]
        ELSE LET r == Request("POST", "measurement/add", NoParams,
                              json_dumps(v.value), resp)
             IN  IF r.result.kind = "raise"
                 THEN [wire |-> r.wire \o r.wire, result |-> r.result]
                 ELSE r

post_measurements(measurements, resp) ==
    LET v == validated_data(as_list(measurements))
    IN  IF v.kind = "raise"
        THEN [wire |-> <<>>, result |-> v]
        ELSE Request("POST", "measurement/add", NoParams,
                     json_dumps(v.value), resp)

----------------------------------------------------------------------------
(* alitiqDemandAPI.get_forecast *)

\* Default interval_in_minutes
interval_in_minutes_default == 15

\* resolve_model that falls back to the default when the lookup fails.
resolve_model_fallback(forecast_model) ==
    IF IsNone(forecast_model) \/ ForecastModels(forecast_model).kind = "raise"
    THEN Return(Member("ICON_EU"))
    ELSE ForecastModels(forecast_model)

\* resolve_model with another member as the default.
resolve_model_other_default(forecast_model) ==
    IF IsNone(forecast_model)
    THEN Return(Member("ICON_D2"))
    ELSE ForecastModels(forecast_model)

\* "if forecast_model is None: ... else: forecast_model = ForecastModels(...)"
resolve_model(forecast_model) ==
    IF IsNone(forecast_model)
    THEN Return(Member("ICON_EU"))
    ELSE ForecastModels(forecast_model)

\* dt_calc_param that formats None with str().
dt_calc_param_str_none(dt_calc) ==
    IF IsNone(dt_calc) THEN PyStr("None") ELSE strftime(dt_calc)

\* dt_calc.strftime("%Y-%m-%dT%H:%M:%S") if dt_calc else None
dt_calc_param(dt_calc) ==
    IF IsNone(dt_calc) THEN None ELSE strftime(dt_calc)

\* get_forecast with the decoder's error caught and None returned.
get_forecast_swallows_decode(location_id, forecast_model, dt_calc, power_measure, timezone, interval_in_minutes, window_boundary, resp) ==
    LET m == resolve_model(forecast_model)
    IN  IF m.kind = "raise"
        THEN [wire |-> <<>>, result |-> m]
        ELSE LET r == Request("GET", "forecast",
                              [id_location |-> PyStr(location_id),
                               response_format |-> PyStr("json"),
                               weather_model |->
                                   PyStr(FORECASTING_MODELS_TO_ALITIQ_MODEL_NAMING(m.value)),
                               power_measure |-> PyStr(power_measure),
                               timezone |-> PyStr(timezone),
                               interval_in_minutes |-> PyInt(interval_in_minutes),
                               window_boundary |-> PyStr(window_boundary),
                               dt_calc |-> dt_calc_param(dt_calc)],
                              None, resp)
             IN  [wire |-> r.wire,
                  result |-> IF r.result.kind = "raise"
                             THEN r.result
                             ELSE IF read_json(r.result.value).kind = "raise"
                                  THEN Return(None)
                                  ELSE read_json(r.result.value)]

get_forecast(location_id, forecast_model, dt_calc, power_measure, timezone, interval_in_minutes, window_boundary, resp) ==
    LET m == resolve_model(forecast_model)
    IN  IF m.kind = "raise"
        THEN [wire |-> <<>>, result |-> m]
        ELSE LET r == Request("GET", "forecast",
                              [id_location |-> PyStr(location_id),
                               response_format |-> PyStr("json"),
                               weather_model |->
                                   PyStr(FORECASTING_MODELS_TO_ALITIQ_MODEL_NAMING(m.value)),
                               power_measure |-> PyStr(power_measure),
                               timezone |-> PyStr(timezone),
                               interval_in_minutes |-> PyInt(interval_in_minutes),
                               window_boundary |-> PyStr(window_boundary),
                               dt_calc |-> dt_calc_param(dt_calc)],
                              None, resp)
             IN  [wire |-> r.wire,
                  result |-> IF r.result.kind = "raise"
                             THEN r.result
                             ELSE read_json(r.result.value)]

----------------------------------------------------------------------------
(* Inputs *)

ApiKeys == {"key-A"}

Locations == {"L1"}

\* The clock starts at ClockStart, just before a minute ends.
ClockStart == DateTime(20 * SecondsPerDay + 7 * 3600 + 59 * 60 + 59, 750000)

\* The datetimes a caller passes: different days, times of day and
\* microseconds.
CallerDates ==
    {DateTime((10 + 3 * i) * SecondsPerDay + i * 3723, (i % 2) * 250000) :
        i \in 1..MaxDates}

OptionalDates == {None} \cup CallerDates

\* forecast_model: omitted, a member, the string value of a member, or a
\* string that is no member's value.
ModelInputs ==
    {None}
    \cup {Member(m) : m \in ForecastModelNames}
    \cup {PyStr(ForecastModelValue(m)) : m \in ForecastModelNames}
    \cup {PyStr("string-that-is-not-a-model")}

Forms == {Form("L1", 1, TRUE), Form("L1", 2, TRUE), Form("L1", 1, FALSE)}

FormLists ==
    UNION {[1..n -> Forms] : n \in 0..MaxBatch}

MeasurementInputs ==
    Forms \cup {[kind |-> "list", items |-> l] : l \in FormLists}

----------------------------------------------------------------------------
(* The state machine *)

Init ==
    /\ api_key \in ApiKeys
    /\ now = ClockStart
    /\ calls = 0
    /\ sent = 0
    /\ op = "none"
    /\ args = None
    /\ served = None
    /\ wire = <<>>
    /\ result = None

\* What a call leaves behind.
Called(name, a, resp, out) ==
    /\ calls < MaxCalls
    /\ op' = name
    /\ args' = a
    /\ served' = resp
    /\ wire' = out.wire
    /\ result' = out.result
    /\ calls' = calls + 1
    /\ sent' = sent + Len(out.wire)
    /\ UNCHANGED <<api_key, now>>

GetMeasurements ==
    \E l \in Locations, s \in OptionalDates, e \in OptionalDates,
       resp \in Responses(TableBodies) :
        Called("get_measurements",
               [location_id |-> l, start_date |-> s, end_date |-> e,
                clock |-> now],
               resp,
               get_measurements(l, s, e, now, resp))

PostMeasurements ==
    \E m \in MeasurementInputs, resp \in Responses({"ack"}) :
        Called("post_measurements",
               [measurements |-> m],
               resp,
               post_measurements(m, resp))

GetForecast ==
    \E l \in Locations, fm \in ModelInputs, dc \in OptionalDates,
       resp \in Responses(TableBodies) :
        Called("get_forecast",
               [location_id |-> l, forecast_model |-> fm, dt_calc |-> dc],
               resp,
               get_forecast(l, fm, dc, "kW", "UTC", interval_in_minutes_default,
                            "end", resp))

\* Time passes between calls.
Tick ==
    /\ now.secs < ClockStart.secs + MaxTicks
    /\ LET us == now.us + MicrosPerSecond + 250000
       IN  now' = DateTime(now.secs + us \div MicrosPerSecond,
                           us % MicrosPerSecond)
    /\ UNCHANGED <<api_key, calls, sent, op, args, served, wire, result>>

Next == GetMeasurements \/ PostMeasurements \/ GetForecast \/ Tick

Spec == Init /\ [][Next]_vars

----------------------------------------------------------------------------
(* Helpers of the properties, stated without the operators of the client *)

\* p is the second-precision text of datetime d: a date and a time of day
\* that add up to d's whole seconds, and nothing below the second.
Formats(p, d) ==
    /\ p.kind = "timestr"
    /\ DOMAIN p = {"kind", "date", "H", "M", "S"}
    /\ p.H \in 0..23 /\ p.M \in 0..59 /\ p.S \in 0..59
    /\ p.date * 86400 + p.H * 3600 + p.M * 60 + p.S = d.secs

\* The records handed to post_measurements, as a sequence.
GivenRecords ==
    IF args.measurements.kind = "list"
    THEN args.measurements.items
    ELSE <<args.measurements>>

HasInvalidRecord == \E i \in 1..Len(GivenRecords) : ~GivenRecords[i].wellformed

\* The last call got through to the server and was answered with status 200.
Answered200 ==
    /\ Len(wire) = 1
    /\ served.kind = "response"
    /\ served.status = 200

\* The last call got through to the server and the round trip failed.
RoundTripFailed ==
    /\ Len(wire) = 1
    /\ \/ served.kind = "transport_failure"
       \/ served.kind = "response" /\ (served.status < 200 \/ served.status > 299)

----------------------------------------------------------------------------
(* The properties *)

\* C1: post_measurements with at least one invalid record fails with a
\* ValidationError and issues no request.
C1_InvalidBatchRaisesValidationError ==
    (op = "post_measurements" /\ HasInvalidRecord)
        => /\ result.kind = "raise"
           /\ result.error.type = "ValidationError"
           /\ wire = <<>>

\* C2: get_measurements with end_date given and start_date omitted sends one
\* request to measurement/inspect whose start_date is end_date minus exactly
\* two days and whose end_date is the given one.
C2_StartDefaultsFromGivenEnd ==
    (op = "get_measurements" /\ IsNone(args.start_date) /\ ~IsNone(args.end_date))
        => /\ Len(wire) = 1
           /\ wire[1].path = "measurement/inspect"
           /\ Formats(wire[1].params["end_date"], args.end_date)
           /\ Formats(wire[1].params["start_date"],
                      [secs |-> args.end_date.secs - 2 * 86400])

\* C3: get_measurements recomputes start_date only when it is omitted: with
\* start_date given and end_date omitted the request carries the clock as
\* end_date and the given start_date; with both omitted start_date is two
\* days before end_date.
C3_GivenStartIsKept ==
    (op = "get_measurements" /\ IsNone(args.end_date))
        => /\ Len(wire) = 1
           /\ Formats(wire[1].params["end_date"], args.clock)
           /\ IF IsNone(args.start_date)
              THEN Formats(wire[1].params["start_date"],
                           [secs |-> args.clock.secs - 2 * 86400])
              ELSE Formats(wire[1].params["start_date"], args.start_date)

\* C4: get_forecast with a string that is no member of ForecastModels fails
\* with ValidationError, sends nothing, and substitutes no model.
C4_UnknownModelRejected ==
    (/\ op = "get_forecast"
     /\ args.forecast_model.kind = "str"
     /\ \A m \in ForecastModelNames : ForecastModelValue(m) # args.forecast_model.v)
        => /\ result.kind = "raise"
           /\ result.error.type = "ValidationError"
           /\ wire = <<>>

C4_Witness ==
    /\ op = "get_forecast"
    /\ args.forecast_model = PyStr("string-that-is-not-a-model")
    /\ result.kind = "raise"
    /\ wire = <<>>

\* C5: post_measurements with only valid records sends exactly one POST to
\* measurement/add whose body holds the normalized records, as many as given
\* and in the given order; a single record is sent as a one-element body.
C5_BatchSentWholeInOrder ==
    (op = "post_measurements" /\ ~HasInvalidRecord)
        => /\ Len(wire) = 1
           /\ wire[1].method = "POST"
           /\ wire[1].path = "measurement/add"
           /\ wire[1].data.kind = "json_array"
           /\ Len(wire[1].data.items) = Len(GivenRecords)
           /\ \A i \in 1..Len(GivenRecords) :
                 /\ wire[1].data.items[i].kind = "dict"
                 /\ wire[1].data.items[i].id_location = GivenRecords[i].id_location
                 /\ wire[1].data.items[i].power = GivenRecords[i].power
           /\ (args.measurements.kind # "list" => Len(wire[1].data.items) = 1)

C5_Witness ==
    /\ op = "post_measurements"
    /\ args.measurements.kind = "list"
    /\ Len(args.measurements.items) = 2
    /\ args.measurements.items[1].power # args.measurements.items[2].power
    /\ ~HasInvalidRecord
    /\ Len(wire) = 1
    /\ result.kind = "return"

\* C6: a request of get_forecast carries no dt_calc parameter when dt_calc is
\* not given and the second-precision text of dt_calc when it is; no request
\* of any operation carries a parameter that is None or the text "None".
C6_NoNoneParameter ==
    /\ (op = "get_forecast" /\ Len(wire) = 1)
          => IF IsNone(args.dt_calc)
             THEN "dt_calc" \notin DOMAIN wire[1].params
             ELSE /\ "dt_calc" \in DOMAIN wire[1].params
                  /\ Formats(wire[1].params["dt_calc"], args.dt_calc)
    /\ \A i \in 1..Len(wire) : \A k \in DOMAIN wire[i].params :
          /\ wire[i].params[k].kind # "None"
          /\ ~(wire[i].params[k].kind = "str" /\ wire[i].params[k].v = "None")

C6_Witness ==
    /\ op = "get_forecast"
    /\ IsNone(args.dt_calc)
    /\ Len(wire) = 1
    /\ "weather_model" \in DOMAIN wire[1].params
    /\ "dt_calc" \notin DOMAIN wire[1].params

C8_AtMostOneRequestPerCall ==
    /\ Len(wire) <= 1
    /\ sent <= calls

C8_Witness ==
    /\ calls = 2
    /\ sent = 2
    /\ RoundTripFailed
    /\ result.kind = "raise"

C10_RequestErrorPropagates ==
    (op # "none" /\ RoundTripFailed)
        => /\ result.kind = "raise"
           /\ result.error = Answer(served).error
           /\ result.error.type \in
                 {"AuthenticationError", "RequestError", "TransportError"}

C10_Witness ==
    /\ op = "get_measurements"
    /\ RoundTripFailed
    /\ served.kind = "response"
    /\ served.status = 500
    /\ result.kind = "raise"
    /\ result.error.type = "RequestError"

====
